---------------------------- MODULE Spec2Model ----------------------------
(***************************************************************************)
(* A model of mkpass's dice module (src/src/dice.rs):                      *)
(*   - FastDiceRoller, the native-width (u32) sampler that turns draws     *)
(*     from a source 0..modulus-1 into a value 0..=max_inclusive;          *)
(*   - CandidateDice, the ranking of common dice for a limit.              *)
(*                                                                         *)
(* u32 values are pairs of 16-bit limbs [hi, lo], so that the arithmetic   *)
(* keeps the width of the code (2^32) although the model checker's own     *)
(* integers are narrower.  Every arithmetic helper returns the wrapped     *)
(* value and a flag telling whether the exact result left the width.       *)
(* overflow_checks is the build's choice: with it (cargo's dev profile)    *)
(* an overflowing +, -, * or pow panics, without it (release) it wraps.    *)
(***************************************************************************)
EXTENDS Integers, Sequences, FiniteSets, TLC

VARIABLES
    overflow_checks, \* build profile: TRUE panics on overflow, FALSE wraps
    arg_max,         \* argument max_inclusive of FastDiceRoller::new (u32)
    arg_modulus,     \* argument modulus of FastDiceRoller::new (a natural)
    roller,          \* the constructed FastDiceRoller (NoRoller before new)
    pc,              \* "new" | "ready" | "run" | "done" | "panic"
    stack,           \* call frames of next(): outermost first
    result,          \* the value returned by the last next() (None before)
    wraps,           \* ghost: silent wrap-arounds during this operation
    rejected,        \* ghost: checked_add found an overflow and retried
    hist,            \* ghost: the draws read_dice returned in this operation
    traced,          \* ghost: whether hist is recorded
    limit,           \* argument limit of ordered_for_limit (u32)
    rpc,             \* "rank" | "ranked" | "panic" ("off": not ranking)
    die,             \* index in COMMON_DICE of the die being computed
    rolls,           \* from_sides_and_limit's loop variable rolls
    options,         \* the candidates collected so far; sorted when ranked
    pow_wrapped      \* ghost: sides.pow(rolls) wrapped around silently

rvars == <<limit, rpc, die, rolls, options, pow_wrapped>>

svars == <<overflow_checks, arg_max, arg_modulus, roller, pc, stack, result,
           wraps, rejected, hist, traced>>

----------------------------------------------------------------------------
(* u32 arithmetic on 16-bit limbs *)

Base == 2^16

U32(n) == [hi |-> n \div Base, lo |-> n % Base]

U32Zero == U32(0)
U32One == U32(1)
U32Max == [hi |-> Base - 1, lo |-> Base - 1]

IsU32(u) == u.hi \in 0..(Base - 1) /\ u.lo \in 0..(Base - 1)

\* the natural number of a u32 below 2^31
Val(u) == u.hi * Base + u.lo

Small(u) == u.hi < Base \div 2

Lt(a, b) == a.hi < b.hi \/ (a.hi = b.hi /\ a.lo < b.lo)
Le(a, b) == ~Lt(b, a)

\* a + b: v the sum modulo 2^32, o whether the exact sum exceeds 2^32 - 1
Add(a, b) ==
    LET lo == a.lo + b.lo
        hi == a.hi + b.hi + (lo \div Base)
    IN [v |-> [hi |-> hi % Base, lo |-> lo % Base], o |-> hi >= Base]

\* a - b: v the difference modulo 2^32, o whether the exact one is negative
Sub(a, b) ==
    LET lo == a.lo - b.lo
        hi == a.hi - b.hi - (IF lo < 0 THEN 1 ELSE 0)
    IN [v |-> [hi |-> (hi + Base) % Base, lo |-> (lo + Base) % Base],
        o |-> hi < 0]

\* the four bytes of a, least significant first
Bytes(a) == <<a.lo % 256, a.lo \div 256, a.hi % 256, a.hi \div 256>>

FromBytes(b) == [hi |-> b[4] * 256 + b[3], lo |-> b[2] * 256 + b[1]]

\* a * n for a natural n below 2^22, byte by byte with carry
Mul(a, n) ==
    LET b == Bytes(a)
        c1 == b[1] * n
        c2 == b[2] * n + (c1 \div 256)
        c3 == b[3] * n + (c2 \div 256)
        c4 == b[4] * n + (c3 \div 256)
    IN [v |-> FromBytes(<<c1 % 256, c2 % 256, c3 % 256, c4 % 256>>),
        o |-> c4 >= 256]

\* a / k and a % k for a natural k in 1 .. 2^22, byte by byte from the top
DivMod(a, k) ==
    LET b == Bytes(a)
        r4 == b[4] % k
        n3 == r4 * 256 + b[3]
        n2 == (n3 % k) * 256 + b[2]
        n1 == (n2 % k) * 256 + b[1]
        q1 == n1 \div k
        q2 == n2 \div k
        q3 == n3 \div k
        q4 == b[4] \div k
    IN [q |-> FromBytes(<<q1, q2, q3, q4>>), r |-> n1 % k]

Div(a, k) == DivMod(a, k).q
Mod(a, k) == DivMod(a, k).r

----------------------------------------------------------------------------
(* FastDiceRoller *)

NoValue == [hi |-> -1, lo |-> -1]
NegInf == 0 - 1

RECURSIVE FloorLog2(_)
FloorLog2(n) == IF n <= 1 THEN 0 ELSE 1 + FloorLog2(n \div 2)

\* (modulus as f64).log2(): int is the floor of the logarithm and whole tells
\* whether the logarithm is that integer exactly; log2(0) is -infinity, which
\* is its own floor
Log2(modulus) ==
    IF modulus = 0 THEN [int |-> NegInf, whole |-> TRUE]
    ELSE [int |-> FloorLog2(modulus), whole |-> 2^FloorLog2(modulus) = modulus]

\* the classification of new(): "overflow" stands for the panic of
\* modulus - 1 when modulus = 0 and the build checks overflow
Kind(max_inclusive, modulus) ==
    IF max_inclusive = U32Zero THEN "Zero"
    ELSE LET m1 == Sub(U32(modulus), U32One)
         IN IF m1.o /\ overflow_checks THEN "overflow"
            ELSE IF max_inclusive = m1.v THEN "Direct"
            ELSE IF Log2(modulus).whole THEN "PowerOfTwo"
            ELSE "NonPowerOfTwo"

NoRoller == [modulus |-> 0, modulus_bits |-> Log2(0),
             max_inclusive |-> U32Zero, kind |-> "none"]

\* FastDiceRoller::new
New(max_inclusive, modulus) ==
    LET kind == Kind(max_inclusive, modulus)
    IN [ok |-> kind # "overflow",
        roller |-> [modulus |-> modulus, modulus_bits |-> Log2(modulus),
                    max_inclusive |-> max_inclusive, kind |-> kind]]

\* read_dice returns num - 1 for an accepted 1 <= num <= modulus; for a
\* modulus above MaxFaces only the extreme faces are explored
MaxFaces == 8

read_dice(modulus) ==
    IF modulus <= MaxFaces THEN 0..(modulus - 1)
    ELSE {0, 1, modulus - 2, modulus - 1}

Frame(r, at) ==
    [roller |-> r, at |-> at, x |-> U32Zero, y |-> U32Zero, next_bit |-> 0,
     rngv |-> 0, n_plus_one |-> 0, max_exc |-> 0, cx |-> U32Zero,
     cx_roller |-> NoRoller, ret |-> U32Zero,
     taken |-> <<>>]     \* ghost: the bits appended since the last draw

Machine(p, stk, res, w, rej) ==
    [pc |-> p, stack |-> stk, result |-> res, wraps |-> w, rejected |-> rej]

Panic(stk, w, rej) == Machine("panic", stk, NoValue, w, rej)

Pop(stk) == SubSeq(stk, 1, Len(stk) - 1)
Top(stk) == stk[Len(stk)]

\* a faulty variant of Accepts: the sum is returned whenever it fits in u32,
\* without the comparison with max_inclusive
AcceptsAnySum(f, low) == ~Add(f.ret, low).o

\* the large regime's acceptance test (lines 156-160): Some(sum) within range
Accepts(f, low) ==
    LET s == Add(f.ret, low)
    IN ~s.o /\ Le(s.v, f.roller.max_inclusive)

\* a frame returns v to its caller: the caller is the loop of the large regime
\* of non_power_of_two (lines 156-160), or nobody (the operation is done)
RECURSIVE Return(_, _, _, _)
Return(stk, v, w, rej) ==
    IF stk = <<>> THEN Machine("done", stk, v, w, rej)
    ELSE LET f == Top(stk)
             s == Add(f.ret, v)
         IN IF Accepts(f, v) THEN Return(Pop(stk), s.v, w, rej)
            ELSE Machine("run", [stk EXCEPT ![Len(stk)].at = "np2l"], NoValue,
                         w, rej \/ s.o)

\* the entry of power_of_two (lines 113-116)
EnterPowerOfTwo(r) ==
    [Frame(r, "p2") EXCEPT !.x = U32One, !.y = U32Zero,
                           !.next_bit = r.modulus_bits.int, !.rngv = 0]

\* the entry of non_power_of_two (lines 139-141 and 152-153)
EnterNonPowerOfTwo(r) ==
    IF Lt(r.max_inclusive, U32(r.modulus))
    THEN LET n_plus_one == Val(r.max_inclusive) + 1
         IN [ok |-> TRUE,
             frame |-> [Frame(r, "np2s") EXCEPT
                 !.n_plus_one = n_plus_one,
                 !.max_exc = ((r.modulus - 1) \div n_plus_one) * n_plus_one]]
    ELSE LET cx == Add(Div(r.max_inclusive, r.modulus), U32One).v
             c == New(Sub(cx, U32One).v, r.modulus)
         IN [ok |-> c.ok,
             frame |-> [Frame(r, "np2l") EXCEPT !.cx = cx,
                                                !.cx_roller = c.roller]]

\* Iterator::next up to its first read_dice (lines 169-176)
next(stk, r, w, rej) ==
    CASE r.kind = "Zero" -> Return(stk, U32Zero, w, rej)
      [] r.kind = "Direct" -> Machine("run", Append(stk, Frame(r, "direct")),
                                      NoValue, w, rej)
      [] r.kind = "PowerOfTwo" ->
            Machine("run", Append(stk, EnterPowerOfTwo(r)), NoValue, w, rej)
      [] OTHER ->
            LET e == EnterNonPowerOfTwo(r)
            IN IF e.ok THEN Machine("run", Append(stk, e.frame), NoValue, w, rej)
               ELSE Panic(stk, w, rej)

\* one iteration of the loop of power_of_two (lines 119-134); drew tells
\* whether the iteration began with a read_dice, which returned d
power_of_two(stk, drew, d, w, rej) ==
    LET f == Top(stk)
        max == f.roller.max_inclusive
        rngv == IF drew THEN d ELSE f.rngv
        next_bit == (IF drew THEN 0 ELSE f.next_bit) + 1
        x2 == Add(f.x, f.x)
        yy == Add(f.y, f.y)
        y2 == Add(yy.v, U32(rngv % 2))
        over == x2.o \/ yy.o \/ y2.o
        w2 == IF over THEN w + 1 ELSE w
        g == [f EXCEPT !.rngv = rngv, !.next_bit = next_bit,
                       !.taken = IF drew THEN <<rngv % 2>>
                                 ELSE Append(f.taken, rngv % 2)]
    IN IF over /\ overflow_checks THEN Panic(stk, w, rej)
       ELSE IF Lt(max, x2.v)
            THEN IF Le(y2.v, max) THEN Return(Pop(stk), y2.v, w2, rej)
                 ELSE LET x3 == Sub(Sub(x2.v, max).v, U32One).v
                          y3 == Sub(Sub(y2.v, max).v, U32One).v
                      IN Machine("run",
                                 [stk EXCEPT ![Len(stk)] =
                                     [g EXCEPT !.x = x3, !.y = y3]],
                                 NoValue, w2, rej)
            ELSE Machine("run",
                         [stk EXCEPT ![Len(stk)] =
                             [g EXCEPT !.x = x2.v, !.y = y2.v]],
                         NoValue, w2, rej)

\* a faulty variant of SmallOutcome: plain modulo reduction of every draw
SmallOutcomeModulo(f, ret) == U32(ret % f.n_plus_one)

\* what the loop of the small regime does with the draw ret (lines 143-149):
\* the value it returns, or NoValue when it draws again
SmallOutcome(f, ret) ==
    IF ret < f.n_plus_one THEN U32(ret)
    ELSE IF ret < f.max_exc THEN U32(ret % f.n_plus_one)
    ELSE NoValue

\* one iteration of a loop of non_power_of_two on the draw d, up to the next
\* read_dice (lines 142-150 and 154-161)
non_power_of_two(stk, d, w, rej) ==
    LET f == Top(stk)
    IN IF f.at = "np2s"
       THEN LET o == SmallOutcome(f, d)
            IN IF o # NoValue THEN Return(Pop(stk), o, w, rej)
               ELSE Machine("run", stk, NoValue, w, rej)
       ELSE LET p == Mul(f.cx, d)
                waiting == [stk EXCEPT ![Len(stk)] =
                               [f EXCEPT !.ret = p.v, !.at = "wait"]]
            IN IF p.o /\ overflow_checks THEN Panic(stk, w, rej)
               ELSE next(waiting, f.cx_roller, IF p.o THEN w + 1 ELSE w, rej)

\* whether the running operation is at a read_dice
NeedsDraw(stk) ==
    LET f == Top(stk)
    IN f.at # "p2" \/ f.next_bit >= f.roller.modulus_bits.int

\* the step of the running operation that begins with read_dice returning d
StepDraw(stk, d, w, rej) ==
    LET f == Top(stk)
    IN CASE f.at = "direct" -> Return(Pop(stk), U32(d), w, rej)
         [] f.at = "p2" -> power_of_two(stk, TRUE, d, w, rej)
         [] OTHER -> non_power_of_two(stk, d, w, rej)

----------------------------------------------------------------------------
(* f32: m * 2^e with m = 0 or 2^23 <= m < 2^24, rounded to nearest even *)

F32Zero == [m |-> 0, e |-> 0]

\* the number of bits of 0 < n < 2^31
BitLen(n) ==
    IF n >= 2^30 THEN 31
    ELSE CHOOSE k \in 1..30 : n < 2^k /\ n >= 2^(k - 1)

\* kept * 2^e plus a dropped part rem out of 2 * half, to the nearest even
RoundKept(kept, rem, half, e) ==
    LET up == rem > half \/ (rem = half /\ kept % 2 = 1)
        m1 == IF up THEN kept + 1 ELSE kept
    IN IF m1 = 2^24 THEN [m |-> 2^23, e |-> e + 1] ELSE [m |-> m1, e |-> e]

\* the f32 nearest to n * 2^e, for 0 <= n < 2^31
RoundTo24(n, e) ==
    IF n = 0 THEN F32Zero
    ELSE LET len == BitLen(n)
         IN IF len <= 24
            THEN [m |-> n * 2^(24 - len), e |-> e - (24 - len)]
            ELSE LET s == len - 24
                 IN RoundKept(n \div 2^s, n % 2^s, 2^(s - 1), e + s)

\* u as f32
U32ToF32(u) ==
    IF Small(u) THEN RoundTo24(Val(u), 0)
    ELSE RoundKept(u.hi * 256 + (u.lo \div 256), u.lo % 256, 128, 8)

\* a / b for b > 0: the quotient of the mantissas in four 6-bit chunks
F32Div(a, b) ==
    IF a.m = 0 THEN F32Zero
    ELSE LET q0 == a.m \div b.m
             r0 == a.m % b.m
             c1 == (r0 * 64) \div b.m
             r1 == (r0 * 64) % b.m
             c2 == (r1 * 64) \div b.m
             r2 == (r1 * 64) % b.m
             c3 == (r2 * 64) \div b.m
             r3 == (r2 * 64) % b.m
             c4 == (r3 * 64) \div b.m
             r4 == (r3 * 64) % b.m
             frac == ((c1 * 64 + c2) * 64 + c3) * 64 + c4
         IN IF q0 = 1
            THEN LET q == 2^24 + frac
                 IN RoundKept(q \div 2, 2 * (q % 2) + (IF r4 > 0 THEN 1 ELSE 0),
                              2, a.e - b.e - 23)
            ELSE RoundKept(frac, 2 * r4, b.m, a.e - b.e - 24)

\* (k as f32) * b for a natural k below 2^7
F32Scale(k, b) == RoundTo24(k * b.m, b.e)

\* (k as f32) + p for a natural 0 < k < 2^7 and 0 <= p <= k
F32Plus(k, p) ==
    IF p.m = 0 THEN RoundTo24(k, 0)
    ELSE LET t == 0 - p.e
             len == BitLen(k)
             sh == t + len - 27
         IN IF sh <= 0 THEN RoundTo24(k * 2^t + p.m, p.e)
            ELSE LET low == IF sh >= 25 THEN 0 ELSE p.m \div 2^sh
                     sticky == IF sh >= 25 \/ p.m % 2^sh # 0 THEN 1 ELSE 0
                 IN RoundTo24(2 * (k * 2^(27 - len) + low) + sticky, len - 28)

F32Lt(a, b) ==
    IF a.m = 0 THEN b.m # 0
    ELSE b.m # 0 /\ (a.e < b.e \/ (a.e = b.e /\ a.m < b.m))

----------------------------------------------------------------------------
(* CandidateDice *)

COMMON_DICE == <<3, 4, 6, 8, 10, 12, 20, 30, 100>>

MaxRolls == 24    \* iterations of from_sides_and_limit's loop explored

\* acc * sides^n; the test of acc.o settles acc before the next factor
RECURSIVE PowFrom(_, _, _)
PowFrom(acc, sides, n) ==
    IF n = 0 THEN acc
    ELSE IF acc.o
         THEN PowFrom([v |-> Mul(acc.v, sides).v, o |-> TRUE], sides, n - 1)
         ELSE PowFrom(Mul(acc.v, sides), sides, n - 1)

\* sides.pow(n): v the power modulo 2^32, o whether it exceeds 2^32 - 1
Pow(sides, n) == PowFrom([v |-> U32One, o |-> FALSE], sides, n)

\* lines 23-31, for the rolls the loop broke at and their total
Candidate(sides, n, total, lim) ==
    LET overshoot == Sub(total, lim).v
        reroll_pct == F32Div(U32ToF32(overshoot), U32ToF32(total))
    IN [sides |-> sides, rolls |-> n, reroll_pct |-> reroll_pct,
        average_rolls |-> F32Plus(n, F32Scale(n, reroll_pct))]

\* a faulty variant of KeyLt: the key is (rolls, sides), the rerolls ignored
KeyLtRolls(a, b) ==
    \/ a.rolls < b.rolls
    \/ (a.rolls = b.rolls /\ a.sides < b.sides)

\* the sort key of line 41, (OrderedFloat(average_rolls), sides), compared
KeyLt(a, b) ==
    \/ F32Lt(a.average_rolls, b.average_rolls)
    \/ (a.average_rolls = b.average_rolls /\ a.sides < b.sides)

\* sort_by_key: every candidate at the place its key has (the sides differ,
\* so no two keys are equal)
SortByKey(opts) ==
    [i \in 1..Len(opts) |->
        CHOOSE c \in {opts[j] : j \in 1..Len(opts)} :
            Cardinality({j \in 1..Len(opts) : KeyLt(opts[j], c)}) = i - 1]

\* the first value of rolls (line 13)
FirstRolls == 1

----------------------------------------------------------------------------
(* the sampler as a state machine *)

MaxRange == 10    \* max_inclusive explored with every draw traced: 0..MaxRange
MaxDraws == 4     \* draws traced per operation
MaxWraps == 2     \* silent wrap-arounds after which an operation is left

Builds == BOOLEAN

Inputs == {<<U32(n), m>> : n \in 0..MaxRange, m \in 0..MaxFaces}

\* inputs at the edge of the width; their draws are not traced
WideInputs ==
    {<<U32Max, 0>>, <<U32Max, 1>>, <<U32Max, 255>>, <<U32Max, 65537>>,
     <<[hi |-> 2^15, lo |-> 0], 128>>, <<U32Max, 128>>,
     <<[hi |-> 2^15, lo |-> 0], 65536>>, <<[hi |-> 2^15 - 1, lo |-> Base - 1], 128>>}

SInit(inputs, tr) ==
    /\ overflow_checks \in Builds
    /\ \E i \in inputs : arg_max = i[1] /\ arg_modulus = i[2]
    /\ roller = NoRoller
    /\ pc = "new"
    /\ stack = <<>>
    /\ result = NoValue
    /\ wraps = 0
    /\ rejected = FALSE
    /\ hist = <<>>
    /\ traced = tr

Becomes(m) ==
    /\ pc' = m.pc
    /\ stack' = m.stack
    /\ result' = m.result
    /\ wraps' = m.wraps
    /\ rejected' = m.rejected

\* FastDiceRoller::new(arg_max, arg_modulus)
Construct ==
    /\ pc = "new"
    /\ LET c == New(arg_max, arg_modulus)
       IN /\ pc' = IF c.ok THEN "ready" ELSE "panic"
          /\ roller' = IF c.ok THEN c.roller ELSE roller
    /\ UNCHANGED <<overflow_checks, arg_max, arg_modulus, stack, result, wraps,
                   rejected, hist, traced>>
    /\ UNCHANGED rvars

\* roller.next() is called: one sample operation begins
Sample ==
    /\ pc \in {"ready", "done"}
    /\ Becomes(next(<<>>, roller, 0, FALSE))
    /\ hist' = <<>>
    /\ UNCHANGED <<overflow_checks, arg_max, arg_modulus, roller, traced>>
    /\ UNCHANGED rvars

\* the running operation reads the source and runs up to its next read
ReadDice ==
    /\ pc = "run"
    /\ NeedsDraw(stack)
    /\ wraps < MaxWraps
    /\ traced => Len(hist) < MaxDraws
    /\ \E d \in read_dice(Top(stack).roller.modulus) :
          /\ Becomes(StepDraw(stack, d, wraps, rejected))
          /\ hist' = IF traced THEN Append(hist, d) ELSE hist
    /\ UNCHANGED <<overflow_checks, arg_max, arg_modulus, roller, traced>>
    /\ UNCHANGED rvars

\* an iteration of power_of_two that takes its bit from the current draw
Accumulate ==
    /\ pc = "run"
    /\ ~NeedsDraw(stack)
    /\ wraps < MaxWraps
    /\ Becomes(power_of_two(stack, FALSE, 0, wraps, rejected))
    /\ UNCHANGED <<overflow_checks, arg_max, arg_modulus, roller, hist, traced>>
    /\ UNCHANGED rvars

----------------------------------------------------------------------------
(* ordered_for_limit as a state machine: one step per loop iteration of
   from_sides_and_limit, the dice taken in the order of COMMON_DICE *)

MaxLimit == 40    \* limits explored: every one of 0..MaxLimit, and RankEdges

\* 7776 = 6^5, 3^20 and 3^20 + 1, 2^30 + 1, 2^31, 2^32 - 1
RankEdges ==
    {U32(7776), U32(10^6), [hi |-> 53204, lo |-> 7057],
     [hi |-> 53204, lo |-> 7058], U32(2^30 + 1), [hi |-> 2^15, lo |-> 0], U32Max}

RankLimits == {U32(n) : n \in 0..MaxLimit} \cup RankEdges

SOff ==
    /\ overflow_checks \in Builds
    /\ arg_max = U32Zero
    /\ arg_modulus = 0
    /\ roller = NoRoller
    /\ pc = "off"
    /\ stack = <<>>
    /\ result = NoValue
    /\ wraps = 0
    /\ rejected = FALSE
    /\ hist = <<>>
    /\ traced = FALSE

ROff ==
    /\ limit = U32Zero
    /\ rpc = "off"
    /\ die = 1
    /\ rolls = FirstRolls
    /\ options = <<>>
    /\ pow_wrapped = FALSE

RInit ==
    /\ limit \in RankLimits
    /\ rpc = "rank"
    /\ die = 1
    /\ rolls = FirstRolls
    /\ options = <<>>
    /\ pow_wrapped = FALSE

\* total = sides.pow(rolls) of the current iteration (line 16)
Total == Pow(COMMON_DICE[die], rolls)

\* sides.pow(rolls) overflows in a build that checks overflow: a panic
PowPanic ==
    /\ rpc = "rank"
    /\ Total.o /\ overflow_checks
    /\ rpc' = "panic"
    /\ UNCHANGED <<limit, die, rolls, options, pow_wrapped>>
    /\ UNCHANGED svars

\* total < limit: rolls += 1 (line 20)
Roll ==
    /\ rpc = "rank"
    /\ ~(Total.o /\ overflow_checks)
    /\ Lt(Total.v, limit)
    /\ rolls < MaxRolls
    /\ rolls' = rolls + 1
    /\ pow_wrapped' = (pow_wrapped \/ Total.o)
    /\ UNCHANGED <<limit, rpc, die, options>>
    /\ UNCHANGED svars

\* total >= limit: break, the candidate is collected (lines 17-31, 38); after
\* the last die the candidates are sorted and returned (lines 41-42)
Break ==
    /\ rpc = "rank"
    /\ ~(Total.o /\ overflow_checks)
    /\ Le(limit, Total.v)
    /\ LET c == Candidate(COMMON_DICE[die], rolls, Total.v, limit)
           last == die = Len(COMMON_DICE)
       IN /\ options' = IF last THEN SortByKey(Append(options, c))
                                ELSE Append(options, c)
          /\ rpc' = IF last THEN "ranked" ELSE "rank"
          /\ die' = IF last THEN die ELSE die + 1
    /\ rolls' = FirstRolls
    /\ pow_wrapped' = (pow_wrapped \/ Total.o)
    /\ UNCHANGED limit
    /\ UNCHANGED svars

vars == <<svars, rvars>>

\* a sampler built on an explored input (every draw traced) or on an input at
\* the edge of the width, or a ranking
Init ==
    \/ SInit(Inputs, TRUE) /\ ROff
    \/ SInit(WideInputs, FALSE) /\ ROff
    \/ SOff /\ RInit

Next ==
    \/ Construct
    \/ Sample
    \/ ReadDice
    \/ Accumulate
    \/ PowPanic
    \/ Roll
    \/ Break

Spec == Init /\ [][Next]_vars


----------------------------------------------------------------------------
(* one sample operation as a function of the draws it is fed *)

\* the operation m run on the draws, as far as they reach
RECURSIVE Run(_, _)
Run(m, draws) ==
    IF m.pc # "run" THEN m
    ELSE IF ~NeedsDraw(m.stack)
         THEN Run(power_of_two(m.stack, FALSE, 0, m.wraps, m.rejected), draws)
    ELSE IF draws = <<>> THEN m
    ELSE Run(StepDraw(m.stack, Head(draws), m.wraps, m.rejected), Tail(draws))

\* r.next() fed the draws: the value returned, or NoValue when the draws end
\* (or the operation fails) before it returns
SampleOn(r, draws) ==
    LET m == Run(next(<<>>, r, 0, FALSE), draws)
    IN IF m.pc = "done" THEN m.result ELSE NoValue

----------------------------------------------------------------------------
(* FastDiceRoller: the properties *)

MaxLen == 3       \* lengths of the draw sequences counted for uniformity

\* C1 (range containment): a value returned by one sample operation lies in
\* 0..=max_inclusive, whatever the kind of the sampler.
C1_RangeContainment ==
    pc = "done" => IsU32(result) /\ Le(result, arg_max)

\* a three-level operation of the large regime returned max_inclusive itself
C1_Witness ==
    /\ pc = "done"
    /\ roller.kind = "NonPowerOfTwo"
    /\ Le(U32(arg_modulus), arg_max)
    /\ Len(hist) >= 3
    /\ result = arg_max

\* the number of the draw sequences of length len on which r.next() returns v
\* within the sequence, for every v of 0..max
Counts(r, len, max) ==
    LET seqs == [1..len -> 0..(r.modulus - 1)]
        out == [s \in seqs |-> SampleOn(r, s)]
    IN [v \in 0..max |-> Cardinality({s \in seqs : out[s] = U32(v)})]

\* C2 (exact uniformity): for a valid modulus and every length, every value
\* of 0..=max_inclusive is returned on the same number of the equally likely
\* draw sequences of that length.
C2_ExactUniformity ==
    (pc = "ready" /\ traced /\ arg_modulus >= 2) =>
        \A len \in 1..MaxLen :
            LET c == Counts(roller, len, Val(arg_max))
            IN \A v \in 0..Val(arg_max) : c[v] = c[0]

\* C3 (precondition failure): with modulus < 2 the construction fails: no
\* sampler is produced, no draw is requested and no value is returned.
C3_ModulusBelowTwoFails ==
    (pc # "off" /\ arg_modulus < 2) =>
        /\ pc \in {"new", "panic"}
        /\ roller = NoRoller
        /\ stack = <<>>
        /\ hist = <<>>
        /\ result = NoValue

\* the bits of the draws h of k bits each, in the order they are consumed
BitStream(h, k, msb_first) ==
    [j \in 1..(Len(h) * k) |->
        LET d == h[((j - 1) \div k) + 1]
            i == (j - 1) % k
        IN (d \div 2^(IF msb_first THEN k - 1 - i ELSE i)) % 2]

\* the bit-by-bit Fast Dice Roller of Lumbroso for 0..n on the bits: the
\* value it returns, or -1 when the bits end first
RECURSIVE FastDiceRollerRef(_, _, _, _)
FastDiceRollerRef(x, y, n, bits) ==
    IF bits = <<>> THEN 0 - 1
    ELSE LET x2 == 2 * x
             y2 == 2 * y + Head(bits)
         IN IF x2 > n
            THEN IF y2 <= n THEN y2
                 ELSE FastDiceRollerRef(x2 - n - 1, y2 - n - 1, n, Tail(bits))
            ELSE FastDiceRollerRef(x2, y2, n, Tail(bits))

Ones(bits) == Cardinality({j \in 1..Len(bits) : bits[j] = 1})

\* C7 (power-of-two bit consumption): with modulus = 2^k a draw is taken
\* exactly when the k bits of the current draw are consumed, the k bits
\* appended after a draw d are the k bits of d, each once, and the value
\* returned is the one the reference Fast Dice Roller returns on the bits of
\* the draws.
C7_PowerOfTwoBits ==
    /\ (pc = "run" /\ arg_modulus >= 2 /\ Top(stack).at = "p2") =>
          LET f == Top(stack)
              k == f.roller.modulus_bits.int
          IN /\ NeedsDraw(stack) <=> f.next_bit = k
             /\ Len(f.taken) = k =>
                   Ones(f.taken) = Ones(BitStream(<<f.rngv>>, k, FALSE))
    /\ (pc = "done" /\ traced /\ arg_modulus >= 2
            /\ roller.kind = "PowerOfTwo") =>
          LET k == roller.modulus_bits.int
              n == Val(arg_max)
          IN \/ Val(result) =
                  FastDiceRollerRef(1, 0, n, BitStream(hist, k, FALSE))
             \/ Val(result) =
                  FastDiceRollerRef(1, 0, n, BitStream(hist, k, TRUE))

\* C8 (single-draw rejection buckets): in the small regime, with
\* n = max_inclusive + 1 and max_exc = floor((modulus - 1) / n) * n, a draw d
\* is accepted iff d < max_exc and then returns d mod n, is drawn again iff
\* d >= max_exc, max_exc >= n, and every v of 0..n-1 is the image of exactly
\* max_exc / n draws, so that modulus - max_exc draws are wasted.
C8_RejectionBuckets ==
    /\ (pc = "run" /\ Top(stack).at = "np2s"
            /\ Top(stack).roller.modulus <= MaxFaces) =>
          LET f == Top(stack)
              m == f.roller.modulus
              n == Val(f.roller.max_inclusive) + 1
              max_exc == ((m - 1) \div n) * n
              image(v) == {d \in 0..(m - 1) : SmallOutcome(f, d) = U32(v)}
          IN /\ max_exc >= n
             /\ \A d \in 0..(m - 1) :
                   SmallOutcome(f, d) =
                       IF d < max_exc THEN U32(d % n) ELSE NoValue
             /\ \A v \in 0..(n - 1) : Cardinality(image(v)) = max_exc \div n
             /\ Cardinality({d \in 0..(m - 1) : SmallOutcome(f, d) = NoValue})
                    = m - max_exc
    /\ (pc = "done" /\ traced /\ roller.kind = "NonPowerOfTwo"
            /\ Lt(arg_max, U32(arg_modulus))) =>
          LET n == Val(arg_max) + 1
              max_exc == ((arg_modulus - 1) \div n) * n
              last == hist[Len(hist)]
          IN /\ last < max_exc
             /\ result = U32(last % n)
             /\ \A i \in 1..(Len(hist) - 1) : hist[i] >= max_exc

\* a draw of the wasted tail was drawn again, and the next draw, of the second
\* bucket, was returned modulo n
C8_Witness ==
    /\ pc = "done"
    /\ traced
    /\ roller.kind = "NonPowerOfTwo"
    /\ Lt(arg_max, U32(arg_modulus))
    /\ Len(hist) = 2
    /\ hist[2] > Val(arg_max)
    /\ result = U32(hist[2] % (Val(arg_max) + 1))

\* C9 (no silent overflow): with a valid modulus, an accumulator of a sample
\* operation that would exceed 2^32 - 1 ends the operation in a hard failure:
\* the operation never goes on, retries or returns after one.
C9_OverflowIsHardFailure ==
    (pc # "off" /\ arg_modulus >= 2) => (wraps = 0 /\ ~rejected)

\* the sampler nested in frame i is the one for floor(max / modulus), a
\* strictly smaller range
NestingDecreases ==
    \A i \in 1..(Len(stack) - 1) :
        /\ stack[i + 1].roller.max_inclusive =
               Div(stack[i].roller.max_inclusive, stack[i].roller.modulus)
        /\ Lt(stack[i + 1].roller.max_inclusive, stack[i].roller.max_inclusive)

\* x = 0 in power_of_two: x stays 0 and never exceeds max_inclusive, so no
\* draws lead to a return
Stuck == pc = "run" /\ Top(stack).at = "p2" /\ Top(stack).x = U32Zero

\* C10 (termination): with a valid modulus the nested samplers have strictly
\* smaller ranges, and an operation never comes to a state that no draws lead
\* out of to a return: it is never aborted and never stuck.
C10_Terminates ==
    (pc # "off" /\ arg_modulus >= 2) =>
        /\ NestingDecreases
        /\ pc # "panic"
        /\ ~Stuck

----------------------------------------------------------------------------
(* CandidateDice: the properties *)

Sides(opts) == [i \in 1..Len(opts) |-> opts[i].sides]

\* C4 as claimed (die ranking golden value): for limit = 7776 the first
\* candidate is the 6-sided die with rolls = 5 and reroll_pct = 0.
C4_SixSidedFirst ==
    (rpc = "ranked" /\ limit = U32(7776)) =>
        /\ options[1].sides = 6
        /\ options[1].rolls = 5
        /\ options[1].reroll_pct = F32Zero

\* C4 as amended: for limit = 7776 the first candidate is the 100-sided die
\* with rolls = 2 (reroll_pct = 2224 / 10000, average_rolls below 2.5); the
\* 6-sided die, with rolls = 5 and reroll_pct = 0 (average_rolls = 5), is the
\* fourth, after the 20-sided and the 10-sided; the order is ascending by
\* (average_rolls, sides).
C4_HundredSidedFirst ==
    (rpc = "ranked" /\ limit = U32(7776)) =>
        /\ Sides(options) = <<100, 20, 10, 6, 30, 12, 8, 4, 3>>
        /\ options[1].rolls = 2
        /\ options[1].reroll_pct = F32Div(RoundTo24(2224, 0), RoundTo24(10000, 0))
        /\ F32Lt(options[1].average_rolls, RoundTo24(5, 0 - 1))
        /\ options[4].rolls = 5
        /\ options[4].reroll_pct = F32Zero
        /\ options[4].average_rolls = RoundTo24(5, 0)
        /\ \A i \in 1..8 :
              \/ F32Lt(options[i].average_rolls, options[i + 1].average_rolls)
              \/ /\ options[i].average_rolls = options[i + 1].average_rolls
                 /\ options[i].sides < options[i + 1].sides

C4_Witness == rpc = "ranked" /\ limit = U32(7776) /\ Len(options) = 9

\* whether sides^n, exactly, is at least lim
PowAtLeast(sides, n, lim) == Pow(sides, n).o \/ Le(lim, Pow(sides, n).v)

\* C5 (minimal rolls): a computed candidate has the least rolls >= 0 with
\* sides^rolls >= limit; in particular rolls = 0 when limit = 0.
C5_MinimalRolls ==
    \A i \in 1..Len(options) :
        LET c == options[i]
        IN /\ PowAtLeast(c.sides, c.rolls, limit)
           /\ c.rolls > 0 => ~PowAtLeast(c.sides, c.rolls - 1, limit)
           /\ limit = U32Zero => c.rolls = 0

\* C6 (ranking is total): for every u32 limit the search for rolls never
\* overflows and never panics, and the ranking returns one candidate for each
\* die of the catalog.
C6_RankingTotal ==
    /\ rpc # "panic"
    /\ ~pow_wrapped
    /\ rpc = "rank" => ~Total.o
    /\ rpc = "ranked" => Sides(options) \in [1..9 -> {3, 4, 6, 8, 10, 12, 20, 30, 100}]

============================================================================
